---- MODULE Spec2Model ----
(***************************************************************************)
(* Download queue and lifecycle manager of src/download_manager.py:        *)
(* DownloadManager (main thread, Qt event loop) and its                    *)
(* AdvancedDownloadWorker threads.  Signals a worker emits from run() are  *)
(* queued to the main thread (sigq) and delivered in FIFO order; signals   *)
(* emitted by pause()/resume()/cancel(), which the main thread calls, are  *)
(* delivered directly inside the caller.                                   *)
(***************************************************************************)
EXTENDS Integers, Sequences, FiniteSets, TLC

\* ---- bounds of the model ----
MaxObjs == 2                \* DownloadItem objects ever put in the queue
MaxWorkers == 2             \* worker threads ever created
MaxRequests == 1            \* pause, resume, cancel, retry and clear requests made
MaxFailures == 1            \* exceptions the engine raises
MaxSignals == 1             \* signals waiting in the main thread's event queue
MaxQueue == 3               \* entries of download_queue
MaxCollisions == 0          \* add_download calls that read the clock of the call before
MaxConcurrentSetting == 2   \* stored max_concurrent is in 1..this

\* ---- program constants ----
DefaultMaxRetries == 3
\* a length for error messages; the engine's error texts are up to one longer
MaxMessageLen == 3      \* DownloadItem.max_retries

Urls == {"http://a"}
\* strings urlparse finds no scheme in ("www.a") or no network location in ("http:/a")
MalformedUrls == {"www.a", "http:/a"}

\* urllib.parse.urlparse(url), its scheme and netloc
UrlParse(url) ==
    CASE url = "http://a" -> [scheme |-> "http", netloc |-> "a"]
      [] url = "www.a"    -> [scheme |-> "", netloc |-> ""]
      [] url = "http:/a"  -> [scheme |-> "http", netloc |-> ""]

\* MediaExtractor.is_valid_url: all([result.scheme, result.netloc])
IsValidUrl(url) == UrlParse(url).scheme # "" /\ UrlParse(url).netloc # ""
\* what a progress callback of the engine reports: <<downloaded_bytes, total_bytes>>
HookData == {<<1, 2>>}
\* more callbacks: no total, 29 of 100, all, and more than the estimated total
ByteSamples == {<<0, 0>>, <<1, 2>>, <<29, 100>>, <<2, 2>>, <<3, 2>>}

\* the samples whose quotient times 100 is rounded below the integer it equals
\* (29 / 100 * 100 is 28.999999999999996 in double arithmetic)
RoundsBelow == {<<29, 100>>}

\* progress_hook, lines 255-258: int((downloaded / total) * 100) if total > 0 else 0
Percent(downloaded, total) ==
    IF total > 0
    THEN IF <<downloaded, total>> \in RoundsBelow
         THEN (downloaded * 100) \div total - 1
         ELSE (downloaded * 100) \div total
    ELSE 0

Statuses == {"pending", "downloading", "completed", "failed", "cancelled", "paused"}
Terminal == {"completed", "failed", "cancelled"}

\* hashlib.md5(f"{url}{time.time()}").hexdigest()[:12]: a function of the
\* url and the clock reading only (taken as collision free on distinct inputs)
DownloadId(url, t) == <<url, t>>

Min(a, b) == IF a < b THEN a ELSE b
Max(a, b) == IF a > b THEN a ELSE b

VARIABLES
    heap,              \* DownloadItem objects, by object number
    download_queue,    \* self.download_queue: sequence of object numbers
    active_downloads,  \* self.active_downloads: id -> worker number
    store,             \* table downloads: id -> row
    workers,           \* AdvancedDownloadWorker threads, by worker number
    sigq,              \* signals queued from worker threads to the main thread
    max_concurrent,    \* self.max_concurrent
    clock,             \* time.time() / datetime.now(): the reading of the last add_download
    waiting,           \* worker the main thread waits for in cancel_download (0: none)
    db,                \* the sqlite connection: "ok", "failing" (writes raise), "closed"
    budget,            \* what the run may still do: objects, workers, requests, ...
    last               \* the last operation performed and the events it emitted

vars == <<heap, download_queue, active_downloads, store, workers, sigq,
          max_concurrent, clock, waiting, db, budget, last>>

\* ---- DownloadItem and the store ----
NewItem(id, t) ==
    [id |-> id, status |-> "pending", progress |-> 0, retry_count |-> 0,
     max_retries |-> DefaultMaxRetries, error_message |-> "", filename |-> "",
     created_at |-> t]

ItemFields == {"id", "status", "progress", "retry_count", "max_retries",
               "error_message", "filename", "created_at"}

\* row_to_download_item: the columns of the row (rowid is none of them); falsy
\* columns are replaced by the field defaults
RowToItem(row) ==
    [f \in ItemFields |->
        IF f = "max_retries" /\ row.max_retries = 0 THEN DefaultMaxRetries ELSE row[f]]

\* a row of table downloads: the item's columns and the rowid SQLite gives the row
Row(it, n) == [f \in ItemFields \cup {"rowid"} |-> IF f = "rowid" THEN n ELSE it[f]]

\* INSERT OR REPLACE keyed by id. The row with the id is deleted and a new row
\* inserted after all others (rowid = largest rowid + 1). Only the order of the
\* rowids is observable, so they are kept as 1..number of rows.
InsertOrReplace(s, it) ==
    LET others == (DOMAIN s) \ {it.id} IN
    [x \in others \cup {it.id} |->
        IF x = it.id THEN Row(it, Cardinality(others) + 1)
        ELSE [s[x] EXCEPT !.rowid =
                 1 + Cardinality({y \in others : s[y].rowid < s[x].rowid})]]

\* save_download_item: the exception of a statement that fails (a locked or full
\* database, a closed connection) is caught and printed, the table is as before
Save(s, it) == IF db = "ok" THEN InsertOrReplace(s, it) ELSE s

QueueIds(q, h) == {h[q[k]].id : k \in 1..Len(q)}

FirstIndex(q, h, id) ==
    CHOOSE k \in 1..Len(q) : h[q[k]].id = id /\ \A j \in 1..(k-1) : h[q[j]].id # id

\* get_download_item: the queue first, then the database
Lookup(q, h, s, id) ==
    IF id \in QueueIds(q, h)
    THEN [where |-> "queue", obj |-> q[FirstIndex(q, h, id)], item |-> h[q[FirstIndex(q, h, id)]]]
    ELSE IF id \in DOMAIN s /\ db # "closed"
    THEN [where |-> "db", obj |-> 0, item |-> RowToItem(s[id])]
    ELSE [where |-> "none", obj |-> 0, item |-> NewItem(id, 0)]

\* item = get_download_item(id); if item: <item := it>; save_download_item(item)
Mutate(q, h, s, id, it) ==
    LET r == Lookup(q, h, s, id) IN
    IF r.where = "none" THEN [heap |-> h, store |-> s]
    ELSE [heap |-> IF r.where = "queue" THEN [h EXCEPT ![r.obj] = it] ELSE h,
          store |-> Save(s, it)]

RemoveId(q, h, id) == SelectSeq(q, LAMBDA o : h[o].id # id)

Without(f, k) == [x \in (DOMAIN f) \ {k} |-> f[x]]
With(f, k, v) == [x \in (DOMAIN f) \cup {k} |-> IF x = k THEN v ELSE f[x]]

NoOp == [op |-> "none", id |-> <<"", 0>>, pre |-> "", had_worker |-> FALSE,
         w |-> 0, a |-> 0, p |-> 0, started |-> {}, events |-> <<>>]

\* the state after DownloadManager.__init__ on an empty database; b: the run's budget
Fresh(b) ==
    /\ heap = <<>>
    /\ download_queue = <<>>
    /\ active_downloads = <<>>
    /\ store = <<>>
    /\ workers = <<>>
    /\ sigq = <<>>
    /\ max_concurrent \in 1..MaxConcurrentSetting
    /\ clock = 0
    /\ waiting = 0
    /\ db = "ok"
    /\ budget = b
    /\ last = NoOp

Init ==
    Fresh([objs |-> MaxObjs, workers |-> MaxWorkers, requests |-> MaxRequests,
           failures |-> MaxFailures, collisions |-> MaxCollisions])

\* ---- events published to the UI (download_added, download_updated, ...) ----
Ev(name, it) == [ev |-> name, id |-> it.id, status |-> it.status]

\* ---- AdvancedDownloadWorker ----
\* __init__; attempts counts the invocations of run()
NewWorker(o) ==
    [obj |-> o, pc |-> "run", is_cancelled |-> FALSE, is_paused |-> FALSE,
     pause_event |-> TRUE, attempts |-> 0]

WorkerId(w) == heap[workers[w].obj].id
\* the thread has left run(): "gave_up" after the retry test failed, "done" otherwise
Finished(w) == workers[w].pc \in {"done", "gave_up"}
Running(w) == ~Finished(w)
\* a queued signal: its name, its arguments and the emitting worker
Sig(name, w, st, n) == [sig |-> name, id |-> WorkerId(w), st |-> st, n |-> n, w |-> w]

\* what a step of a worker thread leaves of the main thread's last operation
WorkerLast == IF waiting # 0 THEN last ELSE NoOp

\* run(), line 154: status_changed.emit(id, "preparing")
WorkerRun(w) ==
    /\ workers[w].pc = "run"
    /\ Len(sigq) < MaxSignals
    /\ sigq' = Append(sigq, Sig("status", w, "preparing", 0))
    /\ workers' = [workers EXCEPT ![w].pc = "setup", ![w].attempts = @ + 1]
    /\ last' = WorkerLast
    /\ UNCHANGED <<heap, download_queue, active_downloads, store, db, max_concurrent, clock, waiting, budget>>

\* run(), lines 157-167: makedirs, build_ydl_options, YoutubeDL(), "if self.is_cancelled:
\* return", status_changed.emit(id, "downloading"); then the thread is in ydl.download.
\* The test of is_cancelled and the emit are one step: the main thread reads a queued
\* signal only when it delivers it, so a cancel between the two is a cancel after both.
WorkerSetup(w) ==
    /\ workers[w].pc = "setup"
    /\ last' = WorkerLast
    /\ IF workers[w].is_cancelled
       THEN /\ workers' = [workers EXCEPT ![w].pc = "done"]
            /\ UNCHANGED sigq
       ELSE /\ Len(sigq) < MaxSignals
            /\ sigq' = Append(sigq, Sig("status", w, "downloading", 0))
            /\ workers' = [workers EXCEPT ![w].pc = "dl"]
    /\ UNCHANGED <<heap, download_queue, active_downloads, store, db, max_concurrent, clock, waiting, budget>>

\* progress_hook(d), called by the engine inside ydl.download
ProgressHook(w, kind, d) ==
    /\ workers[w].pc = "dl"
    /\ last' = WorkerLast
    /\ IF workers[w].is_cancelled
       THEN \* raise DownloadError: run() catches it, is_cancelled is set, run() returns
            /\ workers' = [workers EXCEPT ![w].pc = "done"]
            /\ UNCHANGED <<heap, sigq>>
       ELSE IF ~workers[w].pause_event
       THEN \* pause_event.wait(); the callback is dropped when the wait returns
            /\ workers' = [workers EXCEPT ![w].pc = "blocked"]
            /\ UNCHANGED <<heap, sigq>>
       ELSE IF kind = "downloading"
       THEN /\ Len(sigq) < MaxSignals
            /\ sigq' = Append(sigq, Sig("progress", w, "", Percent(d[1], d[2])))
            /\ UNCHANGED <<heap, workers>>
       ELSE /\ Len(sigq) < MaxSignals
            /\ heap' = [heap EXCEPT ![workers[w].obj].filename = "file"]
            /\ sigq' = Append(sigq, Sig("progress", w, "", 100))
            /\ UNCHANGED workers
    /\ UNCHANGED <<download_queue, active_downloads, store, db, max_concurrent, clock, waiting, budget>>

\* progress_hook, lines 246-249: pause_event.wait() returns, "return"
HookUnblocked(w) ==
    /\ workers[w].pc = "blocked"
    /\ workers[w].pause_event
    /\ workers' = [workers EXCEPT ![w].pc = "dl"]
    /\ last' = WorkerLast
    /\ UNCHANGED <<heap, download_queue, active_downloads, store, sigq, db, max_concurrent, clock, waiting, budget>>

\* run(), lines 168-175: ydl.download returns; "if not self.is_cancelled:
\* download_completed.emit(id, filename)" (test and emit in one step, as in WorkerSetup)
DownloadReturns(w) ==
    /\ workers[w].pc = "dl"
    /\ last' = WorkerLast
    /\ IF workers[w].is_cancelled
       THEN UNCHANGED sigq
       ELSE /\ Len(sigq) < MaxSignals
            /\ sigq' = Append(sigq, Sig("completed", w, heap[workers[w].obj].filename, 0))
    /\ workers' = [workers EXCEPT ![w].pc = "done"]
    /\ UNCHANGED <<heap, download_queue, active_downloads, store, db, max_concurrent, clock, waiting, budget>>

\* run(), lines 177-180: an exception of makedirs or of the engine; "if not
\* self.is_cancelled: error_occurred.emit(id, error_msg)" (test and emit in one step)
DownloadRaises(w) ==
    /\ workers[w].pc \in {"setup", "dl"}
    /\ budget.failures > 0
    /\ budget' = [budget EXCEPT !.failures = @ - 1]
    /\ last' = WorkerLast
    /\ IF workers[w].is_cancelled
       THEN /\ workers' = [workers EXCEPT ![w].pc = "done"]
            /\ UNCHANGED sigq
       ELSE /\ Len(sigq) < MaxSignals
            /\ sigq' = Append(sigq, Sig("error", w, "err", 0))
            /\ workers' = [workers EXCEPT ![w].pc = "retry_check"]
    /\ UNCHANGED <<heap, download_queue, active_downloads, store, db, max_concurrent, clock, waiting>>

\* The last callback of a transfer that succeeds: progress_hook(d) with d['status']
\* == 'finished', after which ydl.download returns. pc "last": the callback has
\* returned; "blocked_last": it waits in pause_event.wait().
FinishedHook(w) ==
    /\ workers[w].pc = "dl"
    /\ last' = WorkerLast
    /\ IF workers[w].is_cancelled
       THEN /\ workers' = [workers EXCEPT ![w].pc = "done"]
            /\ UNCHANGED <<heap, sigq>>
       ELSE IF ~workers[w].pause_event
       THEN /\ workers' = [workers EXCEPT ![w].pc = "blocked_last"]
            /\ UNCHANGED <<heap, sigq>>
       ELSE /\ Len(sigq) < MaxSignals
            /\ heap' = [heap EXCEPT ![workers[w].obj].filename = "file"]
            /\ sigq' = Append(sigq, Sig("progress", w, "", 100))
            /\ workers' = [workers EXCEPT ![w].pc = "last"]
    /\ UNCHANGED <<download_queue, active_downloads, store, db, max_concurrent, clock, waiting, budget>>

\* lines 246-249 for the last callback: pause_event.wait() returns, "return"
FinishedHookUnblocked(w) ==
    /\ workers[w].pc = "blocked_last"
    /\ workers[w].pause_event
    /\ workers' = [workers EXCEPT ![w].pc = "last"]
    /\ last' = WorkerLast
    /\ UNCHANGED <<heap, download_queue, active_downloads, store, sigq, db, max_concurrent, clock, waiting, budget>>

\* run(), lines 168-175, after the last callback: ydl.download returns; "if not
\* self.is_cancelled: download_completed.emit(id, filename)"
DownloadReturnsFinished(w) ==
    /\ workers[w].pc = "last"
    /\ last' = WorkerLast
    /\ IF workers[w].is_cancelled
       THEN UNCHANGED sigq
       ELSE /\ Len(sigq) < MaxSignals
            /\ sigq' = Append(sigq, Sig("completed", w, heap[workers[w].obj].filename, 0))
    /\ workers' = [workers EXCEPT ![w].pc = "done"]
    /\ UNCHANGED <<heap, download_queue, active_downloads, store, db, max_concurrent, clock, waiting, budget>>

\* an engine error text of n characters
RECURSIVE ErrorText(_)
ErrorText(n) == IF n = 0 THEN "" ELSE "x" \o ErrorText(n - 1)

\* run(), lines 177-180, for the exception text msg: error_msg = str(e);
\* error_occurred.emit(id, error_msg)
DownloadRaisesText(w, msg) ==
    /\ workers[w].pc \in {"setup", "dl"}
    /\ budget.failures > 0
    /\ budget' = [budget EXCEPT !.failures = @ - 1]
    /\ last' = WorkerLast
    /\ IF workers[w].is_cancelled
       THEN /\ workers' = [workers EXCEPT ![w].pc = "done"]
            /\ UNCHANGED sigq
       ELSE /\ Len(sigq) < MaxSignals
            /\ sigq' = Append(sigq, Sig("error", w, msg, 0))
            /\ workers' = [workers EXCEPT ![w].pc = "retry_check"]
    /\ UNCHANGED <<heap, download_queue, active_downloads, store, db, max_concurrent, clock, waiting>>

\* RetryCheck with the test "retry_count <= max_retries"
RetryCheckOffByOne(w) ==
    /\ workers[w].pc = "retry_check"
    /\ workers' = [workers EXCEPT ![w].pc =
            IF heap[workers[w].obj].retry_count <= heap[workers[w].obj].max_retries
            THEN "retry_inc" ELSE "gave_up"]
    /\ last' = WorkerLast
    /\ UNCHANGED <<heap, download_queue, active_downloads, store, sigq, db, max_concurrent, clock, waiting, budget>>

\* run(), line 183: "if retry_count < max_retries", read from the shared item
RetryCheck(w) ==
    /\ workers[w].pc = "retry_check"
    /\ workers' = [workers EXCEPT ![w].pc =
            IF heap[workers[w].obj].retry_count < heap[workers[w].obj].max_retries
            THEN "retry_inc" ELSE "gave_up"]
    /\ last' = WorkerLast
    /\ UNCHANGED <<heap, download_queue, active_downloads, store, sigq, db, max_concurrent, clock, waiting, budget>>

\* run(), lines 184-186: retry_count += 1; time.sleep(2); self.run()
RetryIncrement(w) ==
    /\ workers[w].pc = "retry_inc"
    /\ heap' = [heap EXCEPT ![workers[w].obj].retry_count = @ + 1]
    /\ workers' = [workers EXCEPT ![w].pc = "run"]
    /\ last' = WorkerLast
    /\ UNCHANGED <<download_queue, active_downloads, store, sigq, db, max_concurrent, clock, waiting, budget>>

WorkerStep(w) ==
    \/ WorkerRun(w)
    \/ WorkerSetup(w)
    \/ \E d \in HookData : ProgressHook(w, "downloading", d)
    \/ ProgressHook(w, "finished", <<0, 0>>)
    \/ HookUnblocked(w)
    \/ DownloadReturns(w)
    \/ DownloadRaises(w)
    \/ RetryCheck(w)
    \/ RetryIncrement(w)

\* ---- DownloadManager ----
Idle == waiting = 0
Request == budget.requests > 0 /\ budget' = [budget EXCEPT !.requests = @ - 1]
\* the ids a request may name: those handed out so far, and one never handed out
AllIds == {DownloadId(u, t) : u \in Urls, t \in 0..clock}
Op(name, id) == [NoOp EXCEPT !.op = name, !.id = id]

\* status of the record as get_download_item sees it ("" when there is none)
StatusOf(id) ==
    LET r == Lookup(download_queue, heap, store, id) IN
    IF r.where = "none" THEN "" ELSE r.item.status

\* AddDownload without "self.download_queue.append(download_item)"
AddDownloadNotQueued(url, same) ==
    LET t == IF same THEN clock ELSE clock + 1
        id == DownloadId(url, t)
        it == NewItem(id, t)
    IN  /\ Idle
        /\ budget.objs > 0
        /\ same => clock > 0 /\ budget.collisions > 0
        /\ budget' = [budget EXCEPT !.objs = @ - 1,
                                    !.collisions = IF same THEN @ - 1 ELSE @]
        /\ Len(download_queue) < MaxQueue
        /\ clock' = t
        /\ heap' = Append(heap, it)
        /\ download_queue' = download_queue
        /\ store' = Save(store, it)
        /\ last' = [Op("add", id) EXCEPT !.events = <<Ev("added", it)>>]
        /\ UNCHANGED <<active_downloads, workers, sigq, db, max_concurrent, waiting>>

\* AddDownload without "self.save_download_item(download_item)"
AddDownloadNotSaved(url, same) ==
    LET t == IF same THEN clock ELSE clock + 1
        id == DownloadId(url, t)
        it == NewItem(id, t)
    IN  /\ Idle
        /\ budget.objs > 0
        /\ same => clock > 0 /\ budget.collisions > 0
        /\ budget' = [budget EXCEPT !.objs = @ - 1,
                                    !.collisions = IF same THEN @ - 1 ELSE @]
        /\ Len(download_queue) < MaxQueue
        /\ clock' = t
        /\ heap' = Append(heap, it)
        /\ download_queue' = Append(download_queue, Len(heap) + 1)
        /\ store' = store
        /\ last' = [Op("add", id) EXCEPT !.events = <<Ev("added", it)>>]
        /\ UNCHANGED <<active_downloads, workers, sigq, db, max_concurrent, waiting>>

\* add_download(url, ...); same: time.time() returns the reading of the add before
AddDownload(url, same) ==
    LET t == IF same THEN clock ELSE clock + 1
        id == DownloadId(url, t)
        it == NewItem(id, t)
    IN  /\ Idle
        /\ budget.objs > 0
        /\ same => clock > 0 /\ budget.collisions > 0
        /\ budget' = [budget EXCEPT !.objs = @ - 1,
                                    !.collisions = IF same THEN @ - 1 ELSE @]
        /\ Len(download_queue) < MaxQueue
        /\ clock' = t
        /\ heap' = Append(heap, it)
        /\ download_queue' = Append(download_queue, Len(heap) + 1)
        /\ store' = Save(store, it)
        /\ last' = [Op("add", id) EXCEPT !.events = <<Ev("added", it)>>]
        /\ UNCHANGED <<active_downloads, workers, sigq, db, max_concurrent, waiting>>

\* start_download(item), applied to the manager state st
StartDownload(st, o) ==
    IF st.heap[o].id \in DOMAIN st.active
    THEN st
    ELSE LET it == [st.heap[o] EXCEPT !.status = "downloading"] IN
         [heap |-> [st.heap EXCEPT ![o] = it],
          store |-> Save(st.store, it),
          active |-> With(st.active, it.id, Len(st.workers) + 1),
          workers |-> Append(st.workers, NewWorker(o)),
          started |-> st.started \cup {it.id}]

RECURSIVE StartAll(_, _)
StartAll(objs, st) ==
    IF objs = <<>> THEN st
    ELSE StartAll(Tail(objs), StartDownload(st, Head(objs)))

PendingDownloads(q, h) == SelectSeq(q, LAMBDA o : h[o].status = "pending")

\* ProcessQueue that counts no active worker against the limit
ProcessQueueIgnoresLimit ==
    LET active_count == Cardinality(DOMAIN active_downloads)
        pending_downloads == PendingDownloads(download_queue, heap)
        n == Min(Len(pending_downloads), max_concurrent)
        st0 == [heap |-> heap, store |-> store, active |-> active_downloads,
                workers |-> workers, started |-> {}]
        st == StartAll(SubSeq(pending_downloads, 1, n), st0)
    IN  /\ Idle
        /\ Len(st.workers) - Len(workers) <= budget.workers
        /\ budget' = [budget EXCEPT !.workers = @ - (Len(st.workers) - Len(workers))]
        /\ heap' = st.heap
        /\ store' = st.store
        /\ active_downloads' = st.active
        /\ workers' = st.workers
        /\ last' = [Op("tick", <<"", 0>>) EXCEPT
                        !.a = active_count,
                        !.p = Cardinality({heap[pending_downloads[k]].id : k \in 1..Len(pending_downloads)}),
                        !.started = st.started]
        /\ UNCHANGED <<download_queue, sigq, db, max_concurrent, clock, waiting>>

\* process_queue(), the 1 s timer's slot
ProcessQueue ==
    LET active_count == Cardinality(DOMAIN active_downloads)
        pending_downloads == PendingDownloads(download_queue, heap)
        n == Min(Len(pending_downloads), max_concurrent - active_count)
        st0 == [heap |-> heap, store |-> store, active |-> active_downloads,
                workers |-> workers, started |-> {}]
        st == IF active_count >= max_concurrent THEN st0
              ELSE StartAll(SubSeq(pending_downloads, 1, n), st0)
    IN  /\ Idle
        /\ Len(st.workers) - Len(workers) <= budget.workers
        /\ budget' = [budget EXCEPT !.workers = @ - (Len(st.workers) - Len(workers))]
        /\ heap' = st.heap
        /\ store' = st.store
        /\ active_downloads' = st.active
        /\ workers' = st.workers
        /\ last' = [Op("tick", <<"", 0>>) EXCEPT
                        !.a = active_count,
                        !.p = Cardinality({heap[pending_downloads[k]].id : k \in 1..Len(pending_downloads)}),
                        !.started = st.started]
        /\ UNCHANGED <<download_queue, sigq, db, max_concurrent, clock, waiting>>

\* on_status_changed(download_id, status) applied to (h, s); DownloadStatus(status)
\* raises ValueError for a name that is no member of the enum
OnStatusChanged(q, h, s, id, status) ==
    LET r == Lookup(q, h, s, id)
        it == [r.item EXCEPT !.status = status]
    IN  IF r.where = "none" \/ status \notin Statuses
        THEN [heap |-> h, store |-> s, events |-> <<>>]
        ELSE [heap |-> Mutate(q, h, s, id, it).heap,
              store |-> Mutate(q, h, s, id, it).store,
              events |-> <<Ev("updated", it)>>]

\* PauseResume that takes a paused worker out of active_downloads
PauseResumeFreesSlot(id, name, flag, status) ==
    /\ Idle
    /\ Request
    /\ IF id \in DOMAIN active_downloads
       THEN LET w == active_downloads[id]
                r1 == OnStatusChanged(download_queue, heap, store, id, status)
                r2 == Lookup(download_queue, r1.heap, r1.store, id)
                m == Mutate(download_queue, r1.heap, r1.store, id,
                            [r2.item EXCEPT !.status = status])
            IN  /\ workers' = [workers EXCEPT ![w].is_paused = flag, ![w].pause_event = ~flag]
                /\ heap' = m.heap
                /\ store' = m.store
                /\ active_downloads' = IF flag THEN Without(active_downloads, id)
                                       ELSE active_downloads
                /\ last' = [Op(name, id) EXCEPT !.pre = StatusOf(id), !.had_worker = TRUE,
                                                !.events = r1.events]
       ELSE /\ last' = [Op(name, id) EXCEPT !.pre = StatusOf(id)]
            /\ UNCHANGED <<heap, store, workers, active_downloads>>
    /\ UNCHANGED <<download_queue, sigq, db, max_concurrent, clock, waiting>>

\* pause_download / resume_download: worker.pause() or worker.resume() (whose
\* status_changed signal is delivered directly), then the database update
PauseResume(id, name, flag, status) ==
    /\ Idle
    /\ Request
    /\ IF id \in DOMAIN active_downloads
       THEN LET w == active_downloads[id]
                r1 == OnStatusChanged(download_queue, heap, store, id, status)
                r2 == Lookup(download_queue, r1.heap, r1.store, id)
                m == Mutate(download_queue, r1.heap, r1.store, id,
                            [r2.item EXCEPT !.status = status])
            IN  /\ workers' = [workers EXCEPT ![w].is_paused = flag, ![w].pause_event = ~flag]
                /\ heap' = m.heap
                /\ store' = m.store
                /\ last' = [Op(name, id) EXCEPT !.pre = StatusOf(id), !.had_worker = TRUE,
                                                !.events = r1.events]
       ELSE /\ last' = [Op(name, id) EXCEPT !.pre = StatusOf(id)]
            /\ UNCHANGED <<heap, store, workers>>
    /\ UNCHANGED <<download_queue, active_downloads, sigq, db, max_concurrent, clock, waiting>>

PauseDownload(id) == PauseResume(id, "pause", TRUE, "paused")
ResumeDownload(id) == PauseResume(id, "resume", FALSE, "downloading")

\* the database update that ends cancel_download, lines 576-583
CancelUpdate(q, h, s, id) ==
    LET r == Lookup(q, h, s, id)
        m == Mutate(q, h, s, id, [r.item EXCEPT !.status = "cancelled"])
    IN  IF r.where = "none" THEN [heap |-> h, store |-> s, queue |-> q]
        ELSE [heap |-> m.heap, store |-> m.store, queue |-> RemoveId(q, m.heap, id)]

\* cancel_download(id), id in active_downloads, lines 567-571: worker.cancel()
\* (its status_changed signal is delivered directly), worker.quit(), worker.wait(5000)
CancelBegin(id) ==
    /\ Idle
    /\ Request
    /\ id \in DOMAIN active_downloads
    /\ LET w == active_downloads[id]
           r1 == OnStatusChanged(download_queue, heap, store, id, "cancelled")
       IN  /\ workers' = [workers EXCEPT ![w].is_cancelled = TRUE, ![w].pause_event = TRUE]
           /\ heap' = r1.heap
           /\ store' = r1.store
           /\ waiting' = w
           /\ last' = [Op("cancel_wait", id) EXCEPT !.pre = StatusOf(id),
                           !.had_worker = Running(w), !.events = r1.events]
    /\ UNCHANGED <<download_queue, active_downloads, sigq, db, max_concurrent, clock>>

\* CancelFinish without "del self.active_downloads[download_id]"
CancelFinishKeepsEntry(timeout) ==
    /\ waiting # 0
    /\ timeout \/ Finished(waiting)
    /\ LET id == last.id
           c == CancelUpdate(download_queue, heap, store, id)
       IN  /\ workers' = IF Finished(waiting) THEN workers
                         ELSE [workers EXCEPT ![waiting].pc = "done"]
           /\ active_downloads' = active_downloads
           /\ heap' = c.heap
           /\ store' = c.store
           /\ download_queue' = c.queue
           /\ last' = [last EXCEPT !.op = "cancel"]
    /\ waiting' = 0
    /\ UNCHANGED <<sigq, db, max_concurrent, clock, budget>>

\* cancel_download(id), lines 571-583: wait() returns because the thread finished
\* or the 5 s ran out (then worker.terminate()); the map entry is deleted, the
\* record set to cancelled, saved and removed from the queue
CancelFinish(timeout) ==
    /\ waiting # 0
    /\ timeout \/ Finished(waiting)
    /\ LET id == last.id
           c == CancelUpdate(download_queue, heap, store, id)
       IN  /\ workers' = IF Finished(waiting) THEN workers
                         ELSE [workers EXCEPT ![waiting].pc = "done"]
           /\ active_downloads' = Without(active_downloads, id)
           /\ heap' = c.heap
           /\ store' = c.store
           /\ download_queue' = c.queue
           /\ last' = [last EXCEPT !.op = "cancel"]
    /\ waiting' = 0
    /\ UNCHANGED <<sigq, db, max_concurrent, clock, budget>>

\* cancel_download(id), id not in active_downloads
CancelNoWorker(id) ==
    /\ Idle
    /\ Request
    /\ id \notin DOMAIN active_downloads
    /\ LET c == CancelUpdate(download_queue, heap, store, id)
       IN  /\ heap' = c.heap
           /\ store' = c.store
           /\ download_queue' = c.queue
    /\ last' = [Op("cancel", id) EXCEPT !.pre = StatusOf(id)]
    /\ UNCHANGED <<active_downloads, workers, sigq, db, max_concurrent, clock, waiting>>

\* RetryDownload without "item.retry_count = 0"
RetryDownloadKeepsCount(id) ==
    LET r == Lookup(download_queue, heap, store, id)
        it == [r.item EXCEPT !.status = "pending", !.error_message = ""]
    IN  /\ Idle
        /\ budget.requests > 0
        /\ last' = [Op("retry", id) EXCEPT !.pre = StatusOf(id),
                        !.had_worker = id \in DOMAIN active_downloads]
        /\ IF r.where # "none" /\ r.item.status = "failed"
           THEN /\ Len(download_queue) < MaxQueue
                /\ IF r.where = "queue"
                   THEN /\ heap' = [heap EXCEPT ![r.obj] = it]
                        /\ download_queue' = Append(download_queue, r.obj)
                        /\ budget' = [budget EXCEPT !.requests = @ - 1]
                   ELSE /\ budget.objs > 0
                        /\ heap' = Append(heap, it)
                        /\ download_queue' = Append(download_queue, Len(heap) + 1)
                        /\ budget' = [budget EXCEPT !.requests = @ - 1, !.objs = @ - 1]
                /\ store' = Save(store, it)
           ELSE /\ budget' = [budget EXCEPT !.requests = @ - 1]
                /\ UNCHANGED <<heap, download_queue, store>>
        /\ UNCHANGED <<active_downloads, workers, sigq, db, max_concurrent, clock, waiting>>

\* retry_download(id)
RetryDownload(id) ==
    LET r == Lookup(download_queue, heap, store, id)
        it == [r.item EXCEPT !.status = "pending", !.retry_count = 0, !.error_message = ""]
    IN  /\ Idle
        /\ budget.requests > 0
        /\ last' = [Op("retry", id) EXCEPT !.pre = StatusOf(id),
                        !.had_worker = id \in DOMAIN active_downloads]
        /\ IF r.where # "none" /\ r.item.status = "failed"
           THEN /\ Len(download_queue) < MaxQueue
                /\ IF r.where = "queue"
                   THEN /\ heap' = [heap EXCEPT ![r.obj] = it]
                        /\ download_queue' = Append(download_queue, r.obj)
                        /\ budget' = [budget EXCEPT !.requests = @ - 1]
                   ELSE /\ budget.objs > 0
                        /\ heap' = Append(heap, it)
                        /\ download_queue' = Append(download_queue, Len(heap) + 1)
                        /\ budget' = [budget EXCEPT !.requests = @ - 1, !.objs = @ - 1]
                /\ store' = Save(store, it)
           ELSE /\ budget' = [budget EXCEPT !.requests = @ - 1]
                /\ UNCHANGED <<heap, download_queue, store>>
        /\ UNCHANGED <<active_downloads, workers, sigq, db, max_concurrent, clock, waiting>>

\* clear_completed_downloads()
ClearCompleted ==
    /\ Idle
    /\ Request
    /\ download_queue' = SelectSeq(download_queue, LAMBDA o : heap[o].status \notin Terminal)
    /\ last' = Op("clear", <<"", 0>>)
    /\ UNCHANGED <<heap, active_downloads, store, workers, sigq, db, max_concurrent, clock, waiting>>

\* on_progress_updated, on_download_completed, on_download_error: the slot of the
\* signal sg, run by the main thread's event loop
OnProgressUpdated(sg) ==
    LET r == Lookup(download_queue, heap, store, sg.id)
        it == [r.item EXCEPT !.progress = sg.n]
        m == Mutate(download_queue, heap, store, sg.id, it)
    IN  /\ heap' = m.heap
        /\ store' = m.store
        /\ last' = [Op("on_progress", sg.id) EXCEPT !.pre = StatusOf(sg.id), !.w = sg.w,
                        !.events = IF r.where = "none" THEN <<>> ELSE <<Ev("updated", it)>>]
        /\ UNCHANGED <<download_queue, active_downloads>>

OnStatusSignal(sg) ==
    LET r == OnStatusChanged(download_queue, heap, store, sg.id, sg.st)
    IN  /\ heap' = r.heap
        /\ store' = r.store
        /\ last' = [Op("on_status", sg.id) EXCEPT !.pre = StatusOf(sg.id), !.w = sg.w,
                        !.events = r.events]
        /\ UNCHANGED <<download_queue, active_downloads>>

\* OnDownloadCompleted where a failed write ends the handler
OnDownloadCompletedStopsOnFailure(sg) ==
    LET r == Lookup(download_queue, heap, store, sg.id)
        it == [r.item EXCEPT !.status = "completed", !.filename = sg.st, !.progress = 100]
        m == Mutate(download_queue, heap, store, sg.id, it)
    IN  /\ last' = [Op("on_completed", sg.id) EXCEPT !.pre = StatusOf(sg.id), !.w = sg.w,
                        !.events = IF r.where = "none" THEN <<>> ELSE <<Ev("completed", it)>>]
        /\ IF r.where = "none"
           THEN UNCHANGED <<heap, store, download_queue, active_downloads>>
           ELSE /\ heap' = m.heap
                /\ store' = m.store
                /\ active_downloads' = IF db = "ok" THEN Without(active_downloads, sg.id)
                                       ELSE active_downloads
                /\ download_queue' = IF db = "ok" THEN RemoveId(download_queue, m.heap, sg.id)
                                     ELSE download_queue

OnDownloadCompleted(sg) ==
    LET r == Lookup(download_queue, heap, store, sg.id)
        it == [r.item EXCEPT !.status = "completed", !.filename = sg.st, !.progress = 100]
        m == Mutate(download_queue, heap, store, sg.id, it)
    IN  /\ last' = [Op("on_completed", sg.id) EXCEPT !.pre = StatusOf(sg.id), !.w = sg.w,
                        !.events = IF r.where = "none" THEN <<>> ELSE <<Ev("completed", it)>>]
        /\ IF r.where = "none"
           THEN UNCHANGED <<heap, store, download_queue, active_downloads>>
           ELSE /\ heap' = m.heap
                /\ store' = m.store
                /\ active_downloads' = Without(active_downloads, sg.id)
                /\ download_queue' = RemoveId(download_queue, m.heap, sg.id)

OnDownloadError(sg) ==
    LET r == Lookup(download_queue, heap, store, sg.id)
        it == [r.item EXCEPT !.status = "failed", !.error_message = sg.st]
        m == Mutate(download_queue, heap, store, sg.id, it)
    IN  /\ last' = [Op("on_error", sg.id) EXCEPT !.pre = StatusOf(sg.id), !.w = sg.w,
                        !.events = IF r.where = "none" THEN <<>> ELSE <<Ev("failed", it)>>]
        /\ IF r.where = "none"
           THEN UNCHANGED <<heap, store, active_downloads>>
           ELSE /\ heap' = m.heap
                /\ store' = m.store
                /\ active_downloads' = Without(active_downloads, sg.id)
        /\ UNCHANGED download_queue

\* the event loop takes the oldest queued signal and runs its slot
Deliver ==
    /\ Idle
    /\ sigq # <<>>
    /\ sigq' = Tail(sigq)
    /\ LET sg == Head(sigq) IN
         \/ sg.sig = "status" /\ OnStatusSignal(sg)
         \/ sg.sig = "progress" /\ OnProgressUpdated(sg)
         \/ sg.sig = "completed" /\ OnDownloadCompleted(sg)
         \/ sg.sig = "error" /\ OnDownloadError(sg)
    /\ UNCHANGED <<workers, db, max_concurrent, clock, waiting, budget>>

Next ==
    \/ \E u \in Urls, same \in BOOLEAN : AddDownload(u, same)
    \/ ProcessQueue
    \/ \E id \in AllIds : PauseDownload(id)
    \/ \E id \in AllIds : ResumeDownload(id)
    \/ \E id \in AllIds : CancelBegin(id)
    \/ \E timeout \in BOOLEAN : CancelFinish(timeout)
    \/ \E id \in AllIds : CancelNoWorker(id)
    \/ \E id \in AllIds : RetryDownload(id)
    \/ ClearCompleted
    \/ Deliver
    \/ \E w \in 1..Len(workers) : WorkerStep(w)

Spec == Init /\ [][Next]_vars

\* One record whose transfers may fail again and again, and no user request
RetryFailures == DefaultMaxRetries + 2

InitRetry ==
    Fresh([objs |-> 1, workers |-> 1, requests |-> 0, failures |-> RetryFailures,
           collisions |-> 0])

NextRetry ==
    \/ \E u \in Urls : AddDownload(u, FALSE)
    \/ ProcessQueue
    \/ Deliver
    \/ \E w \in 1..Len(workers) :
          \/ WorkerRun(w)
          \/ WorkerSetup(w)
          \/ \E d \in HookData : ProgressHook(w, "downloading", d)
          \/ ProgressHook(w, "finished", <<0, 0>>)
          \/ DownloadReturns(w)
          \/ DownloadRaises(w)
          \/ RetryCheck(w)
          \/ RetryIncrement(w)

SpecRetry == InitRetry /\ [][NextRetry]_vars

\* One record, failing transfers, and one retry_download request
InitRace ==
    Fresh([objs |-> 1, workers |-> 2, requests |-> 1, failures |-> RetryFailures,
           collisions |-> 0])

NextRace ==
    \/ \E u \in Urls : AddDownload(u, FALSE)
    \/ ProcessQueue
    \/ \E id \in AllIds : RetryDownload(id)
    \/ Deliver
    \/ \E w \in 1..Len(workers) :
          \/ WorkerRun(w)
          \/ WorkerSetup(w)
          \/ DownloadRaises(w)
          \/ RetryCheck(w)
          \/ RetryIncrement(w)

SpecRace == InitRace /\ [][NextRace]_vars

\* ---- close(), restart, cleanup_old_downloads ----
\* close(): worker.cancel() for every entry of the map; the status_changed signal
\* of cancel() is delivered directly to on_status_changed
RECURSIVE CloseAll(_, _, _, _)
CloseAll(ids, q, h, s) ==
    IF ids = {} THEN [heap |-> h, store |-> s]
    ELSE LET id == CHOOSE x \in ids : TRUE
             r == OnStatusChanged(q, h, s, id, "cancelled")
         IN  CloseAll(ids \ {id}, q, r.heap, r.store)

\* the ids of the rows "SELECT * FROM downloads WHERE status IN (pending,
\* downloading, paused)" returns: a scan of the table, in rowid order
LoadOrder(s) ==
    LET ids == {id \in DOMAIN s : s[id].status \in {"pending", "downloading", "paused"}}
    IN  [k \in 1..Cardinality(ids) |->
            CHOOSE id \in ids :
                Cardinality({x \in ids : s[x].rowid < s[id].rowid}) = k - 1]

\* LoadSettings without the reset of downloading to pending
LoadSettingsNoReset(s, order) ==
    [k \in 1..Len(order) |-> RowToItem(s[order[k]])]

\* load_settings(), lines 410-421: the DownloadItem objects appended to download_queue
LoadSettings(s, order) ==
    [k \in 1..Len(order) |->
        LET it == RowToItem(s[order[k]]) IN
        IF it.status = "downloading" THEN [it EXCEPT !.status = "pending"] ELSE it]

\* The application ends, after close() (graceful) or without it, and is started
\* again on the same database: the threads, the queued signals and the objects in
\* memory are gone, __init__ loads the queue from the store. The max_concurrent
\* setting is written nowhere, so the new manager reads the same value.
Restart(graceful) ==
    /\ Idle
    /\ Request
    /\ LET c == IF graceful
                THEN CloseAll(DOMAIN active_downloads, download_queue, heap, store)
                ELSE [heap |-> heap, store |-> store]
       IN  /\ store' = c.store
           /\ heap' = LoadSettings(c.store, LoadOrder(c.store))
           /\ download_queue' = [k \in 1..Len(LoadOrder(c.store)) |-> k]
    /\ active_downloads' = <<>>
    /\ workers' = <<>>
    /\ sigq' = <<>>
    /\ db' = "ok"
    /\ last' = [Op("restart", <<"", 0>>) EXCEPT !.had_worker = graceful]
    /\ UNCHANGED <<max_concurrent, clock, waiting>>

\* Close without the loop that cancels the workers
CloseSkipsCancel ==
    /\ Idle
    /\ Request
    /\ active_downloads' = <<>>
    /\ db' = "closed"
    /\ last' = [Op("close", <<"", 0>>) EXCEPT !.had_worker = active_downloads # <<>>]
    /\ UNCHANGED <<heap, store, workers, download_queue, sigq, max_concurrent, clock, waiting>>

\* close(): for every entry of the map worker.cancel() (whose status_changed signal
\* is delivered directly), quit(), wait(3000) and terminate() if the thread still
\* runs; then active_downloads.clear() and conn.close(). The thread is taken as
\* ended when the wait is over.
Close ==
    /\ Idle
    /\ Request
    /\ LET ids == DOMAIN active_downloads
           c == CloseAll(ids, download_queue, heap, store)
       IN  /\ heap' = c.heap
           /\ store' = c.store
           /\ workers' = [w \in 1..Len(workers) |->
                 IF \E id \in ids : active_downloads[id] = w
                 THEN [workers[w] EXCEPT !.is_cancelled = TRUE, !.pause_event = TRUE,
                                         !.pc = "done"]
                 ELSE workers[w]]
    /\ active_downloads' = <<>>
    /\ db' = "closed"
    /\ last' = [Op("close", <<"", 0>>) EXCEPT !.had_worker = active_downloads # <<>>]
    /\ UNCHANGED <<download_queue, sigq, max_concurrent, clock, waiting>>

\* manager.max_concurrent = n: the attribute is public and read by every tick
SetMaxConcurrent(n) ==
    /\ Idle
    /\ Request
    /\ n # max_concurrent
    /\ max_concurrent' = n
    /\ last' = Op("set_max_concurrent", <<"", 0>>)
    /\ UNCHANGED <<heap, download_queue, active_downloads, store, workers, sigq, clock, waiting, db>>

\* the database starts to refuse writes (locked, disk full), and accepts them again
DbFails ==
    /\ Idle
    /\ Request
    /\ db = "ok"
    /\ db' = "failing"
    /\ last' = Op("db_fails", <<"", 0>>)
    /\ UNCHANGED <<heap, download_queue, active_downloads, store, workers, sigq, max_concurrent, clock, waiting>>

DbRecovers ==
    /\ Idle
    /\ db = "failing"
    /\ db' = "ok"
    /\ last' = Op("db_recovers", <<"", 0>>)
    /\ UNCHANGED <<heap, download_queue, active_downloads, store, workers, sigq, max_concurrent, clock, waiting, budget>>

\* the records a history file may hold
ItemSamples ==
    {[NewItem(DownloadId(u, 0), 0) EXCEPT !.status = st, !.progress = pr,
          !.retry_count = rc, !.max_retries = mr, !.error_message = em] :
        u \in Urls, st \in Statuses, pr \in {0, 50}, rc \in {0, 1},
        mr \in {0, DefaultMaxRetries}, em \in {"", "err"}}

\* import_history(file_path), for a file of one record: item = DownloadItem(**item_data);
\* save_download_item(item)
ImportHistory(it) ==
    /\ Idle
    /\ budget.requests > 0
    /\ budget.objs > 0
    /\ heap' = Append(heap, it)
    /\ store' = Save(store, it)
    /\ last' = Op("import", it.id)
    /\ UNCHANGED <<download_queue, active_downloads, workers, sigq, db, max_concurrent, clock, waiting>>
    /\ budget' = [budget EXCEPT !.requests = @ - 1, !.objs = @ - 1]

\* get_download_item(id) called by the owner of the manager: the record of the
\* queue, or a new DownloadItem made from the row
GetDownloadItem(id) ==
    LET r == Lookup(download_queue, heap, store, id) IN
    /\ Idle
    /\ budget.requests > 0
    /\ IF r.where = "db"
       THEN /\ budget.objs > 0
            /\ heap' = Append(heap, r.item)
            /\ budget' = [budget EXCEPT !.requests = @ - 1, !.objs = @ - 1]
       ELSE /\ heap' = heap
            /\ budget' = [budget EXCEPT !.requests = @ - 1]
    /\ last' = [Op("get", id) EXCEPT !.pre = r.where]
    /\ UNCHANGED <<download_queue, active_downloads, store, workers, sigq, db, max_concurrent, clock, waiting>>

\* CleanupOldDownloads with "WHERE created_at < ?" only
CleanupOldDownloadsAnyStatus(cutoff) ==
    /\ Idle
    /\ Request
    /\ store' = IF db # "ok" THEN store
                 ELSE [id \in {x \in DOMAIN store : ~(store[x].created_at < cutoff)}
                        |-> store[id]]
    /\ last' = [Op("cleanup", <<"", 0>>) EXCEPT !.a = cutoff]
    /\ UNCHANGED <<heap, download_queue, active_downloads, workers, sigq, db, max_concurrent, clock, waiting>>

\* cleanup_old_downloads(days): DELETE the rows with a terminal status created
\* before the cutoff; cutoff = datetime.now() - timedelta(days)
CleanupOldDownloads(cutoff) ==
    /\ Idle
    /\ Request
    /\ store' = IF db # "ok" THEN store
                 ELSE [id \in {x \in DOMAIN store :
                            ~(store[x].status \in Terminal /\ store[x].created_at < cutoff)}
                        |-> store[id]]
    /\ last' = [Op("cleanup", <<"", 0>>) EXCEPT !.a = cutoff]
    /\ UNCHANGED <<heap, download_queue, active_downloads, workers, sigq, db, max_concurrent, clock, waiting>>

\* Restarts: add, tick, a failing transfer, retry_download and the restart of the
\* application (the budget of requests counts the restarts too)
InitRestart ==
    Fresh([objs |-> 3, workers |-> 2, requests |-> 2, failures |-> 1, collisions |-> 0])

NextRestart ==
    \/ \E u \in Urls : AddDownload(u, FALSE)
    \/ ProcessQueue
    \/ \E id \in AllIds : RetryDownload(id)
    \/ \E graceful \in BOOLEAN : Restart(graceful)
    \/ Deliver
    \/ \E w \in 1..Len(workers) :
          \/ WorkerRun(w)
          \/ WorkerSetup(w)
          \/ DownloadReturns(w)
          \/ DownloadRaises(w)
          \/ RetryCheck(w)
          \/ RetryIncrement(w)

SpecRestart == InitRestart /\ [][NextRestart]_vars

\* Any string as the url of add_download, and clock readings that repeat
InitAdd ==
    Fresh([objs |-> 2, workers |-> 2, requests |-> 1, failures |-> 1, collisions |-> 1])

NextAdd ==
    \/ \E u \in Urls \cup MalformedUrls, same \in BOOLEAN : AddDownload(u, same)
    \/ ProcessQueue
    \/ \E id \in AllIds : RetryDownload(id)
    \/ Deliver
    \/ \E w \in 1..Len(workers) :
          \/ WorkerRun(w)
          \/ WorkerSetup(w)
          \/ DownloadReturns(w)
          \/ DownloadRaises(w)
          \/ RetryCheck(w)
          \/ RetryIncrement(w)

SpecAdd == InitAdd /\ [][NextAdd]_vars

\* One record and two pause or resume requests
InitPause ==
    Fresh([objs |-> 1, workers |-> 1, requests |-> 2, failures |-> 0, collisions |-> 0])

NextPause ==
    \/ \E u \in Urls : AddDownload(u, FALSE)
    \/ ProcessQueue
    \/ \E id \in AllIds : PauseDownload(id)
    \/ \E id \in AllIds : ResumeDownload(id)
    \/ Deliver
    \/ \E w \in 1..Len(workers) :
          \/ WorkerRun(w)
          \/ WorkerSetup(w)
          \/ \E d \in HookData : ProgressHook(w, "downloading", d)
          \/ ProgressHook(w, "finished", <<0, 0>>)
          \/ HookUnblocked(w)
          \/ DownloadReturns(w)

SpecPause == InitPause /\ [][NextPause]_vars

\* Failed records that are cleared from the queue and retried, and old rows deleted
RequeueRequests == 2

InitRequeue ==
    Fresh([objs |-> 2, workers |-> 3, requests |-> RequeueRequests, failures |-> 1,
           collisions |-> 0])

NextRequeue ==
    \/ \E u \in Urls : AddDownload(u, FALSE)
    \/ ProcessQueue
    \/ \E id \in AllIds : RetryDownload(id)
    \/ ClearCompleted
    \/ \E cutoff \in 0..(clock + 1) : CleanupOldDownloads(cutoff)
    \/ Deliver
    \/ \E w \in 1..Len(workers) :
          \/ WorkerRun(w)
          \/ WorkerSetup(w)
          \/ DownloadReturns(w)
          \/ DownloadRaises(w)
          \/ RetryCheck(w)
          \/ RetryIncrement(w)

SpecRequeue == InitRequeue /\ [][NextRequeue]_vars

\* Three records and one change of max_concurrent
InitLimit ==
    Fresh([objs |-> 3, workers |-> 3, requests |-> 1, failures |-> 0, collisions |-> 0])

NextLimit ==
    \/ \E u \in Urls : AddDownload(u, FALSE)
    \/ ProcessQueue
    \/ \E n \in 1..MaxConcurrentSetting : SetMaxConcurrent(n)
    \/ Deliver
    \/ \E w \in 1..Len(workers) :
          \/ WorkerRun(w)
          \/ WorkerSetup(w)
          \/ DownloadReturns(w)

SpecLimit == InitLimit /\ [][NextLimit]_vars

\* One record, a transfer that may fail once, and any of the sample callbacks
InitProgress ==
    Fresh([objs |-> 1, workers |-> 1, requests |-> 0, failures |-> 1, collisions |-> 0])

NextProgress ==
    \/ \E u \in Urls : AddDownload(u, FALSE)
    \/ ProcessQueue
    \/ Deliver
    \/ \E w \in 1..Len(workers) :
          \/ WorkerRun(w)
          \/ WorkerSetup(w)
          \/ \E d \in ByteSamples : ProgressHook(w, "downloading", d)
          \/ ProgressHook(w, "finished", <<0, 0>>)
          \/ DownloadReturns(w)
          \/ DownloadRaises(w)
          \/ RetryCheck(w)
          \/ RetryIncrement(w)

SpecProgress == InitProgress /\ [][NextProgress]_vars

\* Records saved from a history file and read back
InitRoundTrip ==
    Fresh([objs |-> 2, workers |-> 0, requests |-> 2, failures |-> 0, collisions |-> 0])

NextRoundTrip ==
    \/ \E it \in ItemSamples : ImportHistory(it)
    \/ \E id \in AllIds : GetDownloadItem(id)

SpecRoundTrip == InitRoundTrip /\ [][NextRoundTrip]_vars

\* Three records, their transfers, and close() at any moment; the manager object
\* stays reachable after close()
InitClose ==
    Fresh([objs |-> 3, workers |-> 3, requests |-> 1, failures |-> 0, collisions |-> 0])

NextClose ==
    \/ \E u \in Urls : AddDownload(u, FALSE)
    \/ ProcessQueue
    \/ Close
    \/ Deliver
    \/ \E w \in 1..Len(workers) :
          \/ WorkerRun(w)
          \/ WorkerSetup(w)
          \/ DownloadReturns(w)

SpecClose == InitClose /\ [][NextClose]_vars

\* One record, every request of the owner, and a database that refuses writes for
\* a while
InitStore ==
    Fresh([objs |-> 1, workers |-> 2, requests |-> 2, failures |-> 1, collisions |-> 0])

NextStore ==
    \/ \E u \in Urls : AddDownload(u, FALSE)
    \/ ProcessQueue
    \/ \E id \in AllIds : PauseDownload(id)
    \/ \E id \in AllIds : ResumeDownload(id)
    \/ \E id \in AllIds : CancelBegin(id)
    \/ \E timeout \in BOOLEAN : CancelFinish(timeout)
    \/ \E id \in AllIds : CancelNoWorker(id)
    \/ \E id \in AllIds : RetryDownload(id)
    \/ DbFails
    \/ DbRecovers
    \/ Deliver
    \/ \E w \in 1..Len(workers) : WorkerStep(w)

SpecStore == InitStore /\ [][NextStore]_vars

\* start_download(item) whose try block raises: at "create" in the constructor of
\* the worker or a connect() (lines 516-520), at "start" in worker.start() (line
\* 526, after the entry of active_downloads was made). The except branch sets the
\* record to failed, saves it and emits download_failed. A worker whose start()
\* raised has no thread: it is entered as finished and takes no step.
StartDownloadFails(st, o, point) ==
    IF st.heap[o].id \in DOMAIN st.active
    THEN st
    ELSE LET it == [st.heap[o] EXCEPT !.status = "failed", !.error_message = "err"] IN
         [heap |-> [st.heap EXCEPT ![o] = it],
          store |-> Save(st.store, it),
          active |-> IF point = "start"
                     THEN With(st.active, it.id, Len(st.workers) + 1)
                     ELSE st.active,
          workers |-> IF point = "start"
                      THEN Append(st.workers, [NewWorker(o) EXCEPT !.pc = "done"])
                      ELSE st.workers,
          started |-> st.started]

\* process_queue() in which the start of the first admitted record fails
ProcessQueueStartFails(point) ==
    LET active_count == Cardinality(DOMAIN active_downloads)
        pending_downloads == PendingDownloads(download_queue, heap)
        n == Min(Len(pending_downloads), max_concurrent - active_count)
        st0 == [heap |-> heap, store |-> store, active |-> active_downloads,
                workers |-> workers, started |-> {}]
        st == StartAll(SubSeq(pending_downloads, 2, n),
                       StartDownloadFails(st0, pending_downloads[1], point))
        it == st.heap[pending_downloads[1]]
    IN  /\ Idle
        /\ active_count < max_concurrent
        /\ pending_downloads # <<>>
        /\ budget.failures > 0
        /\ Len(st.workers) - Len(workers) <= budget.workers
        /\ budget' = [budget EXCEPT !.workers = @ - (Len(st.workers) - Len(workers)),
                                    !.failures = @ - 1]
        /\ heap' = st.heap
        /\ store' = st.store
        /\ active_downloads' = st.active
        /\ workers' = st.workers
        /\ last' = [Op("tick", it.id) EXCEPT
                        !.a = active_count,
                        !.p = Cardinality({heap[pending_downloads[k]].id : k \in 1..Len(pending_downloads)}),
                        !.started = st.started,
                        !.events = <<Ev("failed", it)>>]
        /\ UNCHANGED <<download_queue, sigq, db, max_concurrent, clock, waiting>>

\* Two records, a start that fails, and a retry request
InitStart ==
    Fresh([objs |-> 2, workers |-> 2, requests |-> 1, failures |-> 1, collisions |-> 0])

NextStart ==
    \/ \E u \in Urls : AddDownload(u, FALSE)
    \/ ProcessQueue
    \/ \E point \in {"create", "start"} : ProcessQueueStartFails(point)
    \/ \E id \in AllIds : RetryDownload(id)
    \/ Deliver
    \/ \E w \in 1..Len(workers) :
          \/ WorkerRun(w)
          \/ WorkerSetup(w)
          \/ DownloadReturns(w)

SpecStart == InitStart /\ [][NextStart]_vars

\* One record whose transfer raises twice, with error texts of any sample length
InitError ==
    Fresh([objs |-> 1, workers |-> 1, requests |-> 0, failures |-> 2, collisions |-> 0])

NextError ==
    \/ \E u \in Urls : AddDownload(u, FALSE)
    \/ ProcessQueue
    \/ Deliver
    \/ \E w \in 1..Len(workers) :
          \/ WorkerRun(w)
          \/ WorkerSetup(w)
          \/ DownloadReturns(w)
          \/ \E n \in 1..(MaxMessageLen + 1) : DownloadRaisesText(w, ErrorText(n))
          \/ RetryCheck(w)
          \/ RetryIncrement(w)

SpecError == InitError /\ [][NextError]_vars

\* Two records, added at clock readings that may repeat, with pause and resume
\* requests. The 1 s timer keeps firing,
\* the event loop keeps delivering, and a worker thread that can run does run:
\* a transfer that is not held by a pause comes to its end.
AdmitBudget == [objs |-> 2, workers |-> 2, requests |-> 2, failures |-> 0, collisions |-> 1]

InitAdmit == Fresh(AdmitBudget)

WorkerAdvance(w) ==
    /\ w \in 1..Len(workers)
    /\ \/ WorkerRun(w)
       \/ WorkerSetup(w)
       \/ HookUnblocked(w)
       \/ DownloadReturns(w)

NextAdmit ==
    \/ \E u \in Urls, same \in BOOLEAN : AddDownload(u, same)
    \/ ProcessQueue
    \/ \E id \in AllIds : PauseDownload(id)
    \/ \E id \in AllIds : ResumeDownload(id)
    \/ Deliver
    \/ \E w \in 1..Len(workers) :
          \/ WorkerAdvance(w)
          \/ ProgressHook(w, "finished", <<0, 0>>)

SpecAdmit ==
    /\ InitAdmit /\ [][NextAdmit]_vars
    /\ WF_vars(ProcessQueue)
    /\ WF_vars(Deliver)
    /\ \A w \in 1..AdmitBudget.workers : SF_vars(WorkerAdvance(w))

\* One record whose transfer succeeds, with its last callback, and pause and
\* resume requests at any moment
InitCallback ==
    Fresh([objs |-> 1, workers |-> 1, requests |-> 2, failures |-> 0, collisions |-> 0])

NextCallback ==
    \/ \E u \in Urls : AddDownload(u, FALSE)
    \/ ProcessQueue
    \/ \E id \in AllIds : PauseDownload(id)
    \/ \E id \in AllIds : ResumeDownload(id)
    \/ Deliver
    \/ \E w \in 1..Len(workers) :
          \/ WorkerRun(w)
          \/ WorkerSetup(w)
          \/ \E d \in HookData : ProgressHook(w, "downloading", d)
          \/ HookUnblocked(w)
          \/ FinishedHook(w)
          \/ FinishedHookUnblocked(w)
          \/ DownloadReturnsFinished(w)

SpecCallback == InitCallback /\ [][NextCallback]_vars

\* ---- export_history, import_history of an exported file ----
\* str(member) of the Enum DownloadStatus, which json.dump(..., default=str) writes
\* for the status field of asdict(item)
StrOfStatus(st) ==
    CASE st = "pending" -> "DownloadStatus.PENDING"
      [] st = "downloading" -> "DownloadStatus.DOWNLOADING"
      [] st = "completed" -> "DownloadStatus.COMPLETED"
      [] st = "failed" -> "DownloadStatus.FAILED"
      [] st = "cancelled" -> "DownloadStatus.CANCELLED"
      [] st = "paused" -> "DownloadStatus.PAUSED"

\* get_download_history(limit): the ids of the rows with a terminal status, ORDER BY
\* created_at DESC (rows of one created_at in rowid order)
HistoryOrder(s) ==
    LET ids == {id \in DOMAIN s : s[id].status \in Terminal}
        Before(x, y) == \/ s[x].created_at > s[y].created_at
                        \/ s[x].created_at = s[y].created_at /\ s[x].rowid < s[y].rowid
    IN  [k \in 1..Cardinality(ids) |->
            CHOOSE id \in ids : Cardinality({x \in ids : Before(x, id)}) = k - 1]

\* export_history(path, 'json'): the list of objects in the file
ExportHistory(s) ==
    [k \in 1..Len(HistoryOrder(s)) |->
        LET it == RowToItem(s[HistoryOrder(s)[k]]) IN
        [it EXCEPT !.status = StrOfStatus(it.status)]]

\* import_history(path), the loop over the objects of the file into the table s:
\* DownloadStatus(item_data['status']) raises ValueError for a string that is no
\* value of the enum, which ends the import with False
RECURSIVE ImportFile(_, _)
ImportFile(file, s) ==
    IF file = <<>> THEN [store |-> s, ok |-> TRUE]
    ELSE IF Head(file).status \notin Statuses THEN [store |-> s, ok |-> FALSE]
    ELSE ImportFile(Tail(file), Save(s, Head(file)))

\* export_history(path, 'json') of this manager, then import_history(path) by a
\* manager started on an empty database; the state after is that second manager's
ExportImport ==
    /\ Idle
    /\ Request
    /\ db = "ok"
    /\ LET r == ImportFile(ExportHistory(store), <<>>)
       IN  /\ store' = r.store
           /\ last' = [Op("import_file", <<"", 0>>) EXCEPT
                           !.pre = IF r.ok THEN "True" ELSE "False",
                           !.p = Len(ExportHistory(store))]
    /\ heap' = <<>>
    /\ download_queue' = <<>>
    /\ active_downloads' = <<>>
    /\ workers' = <<>>
    /\ sigq' = <<>>
    /\ UNCHANGED <<db, max_concurrent, clock, waiting>>

\* Two records whose transfers end or fail, and one export and import
InitExport ==
    Fresh([objs |-> 2, workers |-> 2, requests |-> 1, failures |-> 1, collisions |-> 0])

NextExport ==
    \/ \E u \in Urls : AddDownload(u, FALSE)
    \/ ProcessQueue
    \/ ExportImport
    \/ Deliver
    \/ \E w \in 1..Len(workers) :
          \/ WorkerRun(w)
          \/ WorkerSetup(w)
          \/ DownloadReturns(w)
          \/ DownloadRaises(w)
          \/ RetryCheck(w)
          \/ RetryIncrement(w)

SpecExport == InitExport /\ [][NextExport]_vars

\* One record that is paused, a restart of the application, and a resume request
InitResume ==
    Fresh([objs |-> 2, workers |-> 2, requests |-> 3, failures |-> 0, collisions |-> 0])

NextResume ==
    \/ \E u \in Urls : AddDownload(u, FALSE)
    \/ ProcessQueue
    \/ \E id \in AllIds : PauseDownload(id)
    \/ \E id \in AllIds : ResumeDownload(id)
    \/ \E graceful \in BOOLEAN : Restart(graceful)
    \/ Deliver
    \/ \E w \in 1..Len(workers) :
          \/ WorkerRun(w)
          \/ WorkerSetup(w)
          \/ \E d \in HookData : ProgressHook(w, "downloading", d)
          \/ ProgressHook(w, "finished", <<0, 0>>)
          \/ HookUnblocked(w)
          \/ DownloadReturns(w)

SpecResume == InitResume /\ [][NextResume]_vars

\* One record and its transfer, with a database that refuses writes once for a
\* while. The timer, the event loop and the worker thread keep running, and the
\* database recovers: every step that can be taken is taken eventually.
InitConverge ==
    Fresh([objs |-> 1, workers |-> 1, requests |-> 1, failures |-> 0, collisions |-> 0])

NextConverge ==
    \/ \E u \in Urls : AddDownload(u, FALSE)
    \/ ProcessQueue
    \/ DbFails
    \/ DbRecovers
    \/ Deliver
    \/ \E w \in 1..Len(workers) :
          \/ WorkerRun(w)
          \/ WorkerSetup(w)
          \/ \E d \in HookData : ProgressHook(w, "downloading", d)
          \/ ProgressHook(w, "finished", <<0, 0>>)
          \/ DownloadReturns(w)

SpecConverge == InitConverge /\ [][NextConverge]_vars /\ WF_vars(NextConverge)

TypeOK ==
    /\ \A k \in 1..Len(download_queue) : download_queue[k] \in 1..Len(heap)
    /\ \A id \in DOMAIN active_downloads : active_downloads[id] \in 1..Len(workers)
    /\ \A o \in 1..Len(heap) : heap[o].status \in Statuses
    /\ Len(sigq) <= MaxSignals
    /\ \A k \in DOMAIN budget : budget[k] >= 0
    /\ db \in {"ok", "failing", "closed"}

\* ---- queries ----
\* get_active_downloads(): the queued records that are downloading or paused
GetActiveDownloads ==
    {o \in {download_queue[k] : k \in 1..Len(download_queue)} :
        heap[o].status \in {"downloading", "paused"}}

\* get_download_history(): the ids of the stored rows with a terminal status
GetDownloadHistory == {id \in DOMAIN store : store[id].status \in Terminal}

\* the counts get_download_stats() selects
CountRows(st) == Cardinality({id \in DOMAIN store : store[id].status \in st})

\* get_download_stats() with queued_downloads = len(self.download_queue)
GetDownloadStatsCountsQueue ==
    IF db = "closed"
    THEN [total_downloads |-> 0, completed_downloads |-> 0, failed_downloads |-> 0,
          success_rate |-> [num |-> 0, den |-> 1],
          active_downloads |-> Cardinality(DOMAIN active_downloads),
          queued_downloads |-> Len(download_queue)]
    ELSE [total_downloads |-> CountRows(Statuses),
          completed_downloads |-> CountRows({"completed"}),
          failed_downloads |-> CountRows({"failed"}),
          success_rate |-> IF CountRows(Statuses) > 0
                           THEN [num |-> CountRows({"completed"}) * 100,
                                 den |-> CountRows(Statuses)]
                           ELSE [num |-> 0, den |-> 1],
          active_downloads |-> Cardinality(DOMAIN active_downloads),
          queued_downloads |-> Len(download_queue)]

\* get_download_stats(): the SELECTs raise on a closed connection and the except
\* branch returns zeros with the two in-memory counts. success_rate is the quotient
\* completed / total * 100, kept as numerator and denominator.
GetDownloadStats ==
    IF db = "closed"
    THEN [total_downloads |-> 0, completed_downloads |-> 0, failed_downloads |-> 0,
          success_rate |-> [num |-> 0, den |-> 1],
          active_downloads |-> Cardinality(DOMAIN active_downloads),
          queued_downloads |-> Len(PendingDownloads(download_queue, heap))]
    ELSE [total_downloads |-> CountRows(Statuses),
          completed_downloads |-> CountRows({"completed"}),
          failed_downloads |-> CountRows({"failed"}),
          success_rate |-> IF CountRows(Statuses) > 0
                           THEN [num |-> CountRows({"completed"}) * 100,
                                 den |-> CountRows(Statuses)]
                           ELSE [num |-> 0, den |-> 1],
          active_downloads |-> Cardinality(DOMAIN active_downloads),
          queued_downloads |-> Len(PendingDownloads(download_queue, heap))]

RunningWorkers == {w \in 1..Len(workers) : Running(w)}

\* the worker will not start another attempt after the failure it reported
Exhausted(w) ==
    \/ Finished(w)
    \/ /\ workers[w].pc = "retry_check"
       /\ heap[workers[w].obj].retry_count >= heap[workers[w].obj].max_retries

\* ---- claims ----

\* C1: the number of workers started and not yet finished is at most max_concurrent
\* (max_concurrent never changes in this model).
C1_WorkersWithinLimit == Cardinality(RunningWorkers) <= max_concurrent

\* C2: no two started-and-unfinished workers have the same record id.
C2_OneWorkerPerId ==
    \A w1, w2 \in RunningWorkers : WorkerId(w1) = WorkerId(w2) => w1 = w2

\* C3: a stored terminal status (completed, failed, cancelled) never changes, except
\* failed -> pending by retry_download.
C3_TerminalIsFinal ==
    [][\A id \in (DOMAIN store) \cap (DOMAIN store') :
          store[id].status \in Terminal =>
             \/ store'[id].status = store[id].status
             \/ /\ store[id].status = "failed"
                /\ store'[id].status = "pending"
                /\ last'.op = "retry" /\ last'.id = id]_vars

\* C4: with no user request, a worker never makes more than max_retries + 1 attempts,
\* and a worker that gave up has made exactly max_retries + 1 attempts and leaves the
\* record failed once its signals are delivered.
C4_RetryBound ==
    \A w \in 1..Len(workers) :
        LET it == heap[workers[w].obj] IN
        /\ workers[w].attempts <= it.max_retries + 1
        /\ workers[w].pc = "gave_up" =>
              /\ workers[w].attempts = it.max_retries + 1
              /\ it.retry_count = it.max_retries
              /\ sigq = <<>> => it.status = "failed" /\ store[it.id].status = "failed"

C4_Witness ==
    \E w \in 1..Len(workers) :
        /\ workers[w].pc = "gave_up"
        /\ workers[w].attempts = DefaultMaxRetries + 1
        /\ sigq = <<>>

\* C5: retry_count <= max_retries for every record, in memory and in the store.
C5_RetryCountBounded ==
    /\ \A o \in 1..Len(heap) : heap[o].retry_count <= heap[o].max_retries
    /\ \A id \in DOMAIN store : store[id].retry_count <= store[id].max_retries

\* C6: when on_download_error has set a record failed and emitted the failed event,
\* the worker that reported the failure has exhausted its retries (it does not retry).
C6_FailedOnlyWhenExhausted ==
    (last.op = "on_error" /\ last.events # <<>>) => Exhausted(last.w)

\* C7: after cancel_download(id) on a record in downloading status with a running
\* worker, the stored status is cancelled, the id is not in get_active_downloads()
\* nor in active_downloads, and it is in get_download_history().
C7_CancelDownloading ==
    (last.op = "cancel" /\ last.pre = "downloading" /\ last.had_worker) =>
        /\ last.id \in DOMAIN store
        /\ store[last.id].status = "cancelled"
        /\ \A o \in GetActiveDownloads : heap[o].id # last.id
        /\ last.id \notin DOMAIN active_downloads
        /\ last.id \in GetDownloadHistory

C7_Witness == last.op = "cancel" /\ last.pre = "downloading" /\ last.had_worker

\* C8: after cancel_download(id) has returned, no worker for id is still executing.
C8_NoWorkerAfterCancel ==
    last.op = "cancel" => \A w \in RunningWorkers : WorkerId(w) # last.id

\* C9 as stated: right after add_download returns X, get_active_downloads() holds
\* a record X with status pending.
C9_Original ==
    last.op = "add" =>
        \E o \in GetActiveDownloads : heap[o].id = last.id /\ heap[o].status = "pending"

\* C9 as amended: right after add_download returns X, the last entry of download_queue
\* is a record X with status pending, and get_active_downloads() does not list it.
C9_Amended ==
    last.op = "add" =>
        /\ download_queue # <<>>
        /\ LET o == download_queue[Len(download_queue)] IN
              /\ heap[o].id = last.id
              /\ heap[o].status = "pending"
              /\ o \notin GetActiveDownloads

C9_Witness == last.op = "add" /\ Len(download_queue) > 1

\* C10: a tick with a entries in the active-worker map and p pending records starts
\* min(p, max(0, max_concurrent - a)) workers; every started record is downloading
\* and in the map.
C10_TickStartsMin ==
    last.op = "tick" =>
        /\ Cardinality(last.started) = Min(last.p, Max(0, max_concurrent - last.a))
        /\ \A id \in last.started :
              id \in DOMAIN active_downloads /\ store[id].status = "downloading"

\* C11: pending records are admitted in creation order: after a tick that started a
\* worker for a record B, no record with an earlier created_at is still pending in
\* the queue (also after retry_download and after a load from the store).
C11_CreationOrder ==
    last.op = "tick" =>
        \A id \in last.started : \A k \in 1..Len(download_queue) :
            heap[download_queue[k]].status = "pending" =>
                heap[download_queue[k]].created_at >= store[id].created_at

\* C16: after DownloadManager.__init__, every row stored as downloading is in the
\* queue as a pending record, and (the map being empty) no queued record is
\* downloading.
C16_RestartReconciles ==
    last.op = "restart" =>
        /\ \A id \in DOMAIN store : store[id].status = "downloading" =>
              \E k \in 1..Len(download_queue) :
                  /\ heap[download_queue[k]].id = id
                  /\ heap[download_queue[k]].status = "pending"
        /\ active_downloads = <<>>
        /\ \A k \in 1..Len(download_queue) : heap[download_queue[k]].status # "downloading"

C16_Witness ==
    /\ last.op = "restart"
    /\ \E id \in DOMAIN store : store[id].status = "downloading"

C13_FreshId ==
    [][(last'.op = "add" /\ Len(heap') = Len(heap) + 1) =>
          last'.id \notin (DOMAIN store) \cup QueueIds(download_queue, heap)]_vars

\* C14: no record of the queue and no row of the store has a malformed url
\* (add_download with such a url appends nothing, writes nothing, emits nothing).
C14_MalformedRejected ==
    /\ \A id \in QueueIds(download_queue, heap) \cup DOMAIN store : IsValidUrl(id[1])
    /\ last.op = "add" => IsValidUrl(last.id[1])

\* C15: pause_download(id) on a record that is already paused changes neither the
\* record nor its row nor the worker's pause flag, and emits no event.
C15_PauseIdempotent ==
    [][(last'.op = "pause" /\ last'.pre = "paused" /\ budget' # budget) =>
          /\ heap' = heap
          /\ store' = store
          /\ workers' = workers
          /\ last'.events = <<>>]_vars

\* the workers ever started for the record id
WorkersOf(id) == {w \in 1..Len(workers) : WorkerId(w) = id}

\* C17: after retry_download(id) on a failed record, the record is pending with
\* retry_count 0 and an empty error_message, its row says the same, and it is among
\* the pending entries of the queue; the ticks start a record at most once more for
\* each request made.
C17_RetryRequeues ==
    /\ (last.op = "retry" /\ last.pre = "failed") =>
          LET r == Lookup(download_queue, heap, store, last.id) IN
          /\ r.where = "queue"
          /\ r.item.status = "pending"
          /\ r.item.retry_count = 0
          /\ r.item.error_message = ""
          /\ RowToItem(store[last.id]) = r.item
          /\ \E k \in 1..Len(PendingDownloads(download_queue, heap)) :
                heap[PendingDownloads(download_queue, heap)[k]].id = last.id
    /\ \A id \in DOMAIN store :
          Cardinality(WorkersOf(id)) <= 1 + (RequeueRequests - budget.requests)

C17_Witness ==
    /\ last.op = "tick"
    /\ \E id \in last.started : Cardinality(WorkersOf(id)) = 2
    /\ budget.requests = RequeueRequests - 1

\* C18: retry_download(id) on a record whose persisted status is not failed, or on
\* an unknown id, changes neither the queue nor the store nor the active-worker map
\* nor any record.
C18_RetryOnlyFailed ==
    [][(/\ last'.op = "retry"
        /\ budget' # budget
        /\ last'.id \in DOMAIN store => store[last'.id].status # "failed") =>
          UNCHANGED <<download_queue, store, active_downloads, heap>>]_vars

\* C19: between the handlers of the main thread, the in-memory download_queue holds
\* no record with status completed, failed or cancelled (a record that reaches a
\* terminal status leaves the queue).
C19_NoTerminalInQueue ==
    Idle => \A k \in 1..Len(download_queue) : heap[download_queue[k]].status \notin Terminal

\* C20: every record in the in-memory queue or in the active-worker map has a row
\* with its id in the store.
C20_QueuedHaveRows ==
    /\ QueueIds(download_queue, heap) \subseteq DOMAIN store
    /\ DOMAIN active_downloads \subseteq DOMAIN store

\* C21: a decrease of max_concurrent changes no worker, record, row, queue entry or
\* map entry, and a tick that finds at least max_concurrent entries in the
\* active-worker map starts no worker.
C21_LoweringThrottles ==
    [][/\ max_concurrent' < max_concurrent =>
             UNCHANGED <<heap, store, workers, active_downloads, download_queue>>
       /\ (last'.op = "tick" /\ Cardinality(DOMAIN active_downloads) >= max_concurrent) =>
             UNCHANGED <<heap, store, workers, active_downloads, download_queue>>]_vars

C21_Witness ==
    /\ last.op = "tick"
    /\ Cardinality(DOMAIN active_downloads) > max_concurrent
    /\ PendingDownloads(download_queue, heap) # <<>>
    /\ budget.workers > 0

\* C22: while a record stays in downloading status its recorded progress never
\* decreases (also across an automatic retry of the worker).
C22_ProgressMonotone ==
    [][\A id \in (DOMAIN store) \cap (DOMAIN store') :
          (store[id].status = "downloading" /\ store'[id].status = "downloading") =>
              store'[id].progress >= store[id].progress]_vars

\* C23: the recorded progress is in 0..100, and the value a progress callback with
\* d bytes of t sends is floor(d * 100 / t) when t > 0 and 0 otherwise (or the 100
\* of a finished callback).
C23_ProgressInRange ==
    /\ \A id \in DOMAIN store : store[id].progress \in 0..100
    /\ \A k \in 1..Len(sigq) : sigq[k].sig = "progress" =>
          /\ sigq[k].n \in 0..100
          /\ sigq[k].n \in {100} \cup
                {IF d[2] > 0 THEN (d[1] * 100) \div d[2] ELSE 0 : d \in ByteSamples}

\* C24: a record saved with save_download_item and read back from the store with
\* get_download_item is equal to the saved record in every field.
C24_RoundTrip ==
    (last.op = "get" /\ last.pre = "db" /\ Len(heap) = 2) => heap[2] = heap[1]

\* C25: get_download_stats always returns a result: on an empty store total,
\* completed, failed and success_rate are 0; with rows, success_rate is
\* completed / total * 100; active_downloads is the size of the active-worker map
\* and queued_downloads the number of pending records of the queue.
C25_StatsWellDefined ==
    LET r == GetDownloadStats IN
    /\ DOMAIN r = {"total_downloads", "completed_downloads", "failed_downloads",
                   "success_rate", "active_downloads", "queued_downloads"}
    /\ store = <<>> =>
          /\ r.total_downloads = 0 /\ r.completed_downloads = 0 /\ r.failed_downloads = 0
          /\ r.success_rate.num = 0
    /\ r.total_downloads > 0 =>
          /\ r.total_downloads = Cardinality(DOMAIN store)
          /\ r.completed_downloads =
                Cardinality({id \in DOMAIN store : store[id].status = "completed"})
          /\ r.success_rate.num * r.total_downloads
                = r.completed_downloads * 100 * r.success_rate.den
    /\ r.total_downloads = 0 => r.success_rate.num = 0
    /\ r.active_downloads = Cardinality(DOMAIN active_downloads)
    /\ r.queued_downloads =
          Cardinality({k \in 1..Len(download_queue) :
                         heap[download_queue[k]].status = "pending"})

C25_Witness ==
    /\ GetDownloadStats.total_downloads = 3
    /\ GetDownloadStats.completed_downloads = 1
    /\ GetDownloadStats.active_downloads = 1
    /\ GetDownloadStats.queued_downloads = 1
    /\ Len(download_queue) > 1

\* C26: a close() step sets the cancellation flag of every worker of the
\* active-worker map, writes the cancelled status of each of their records, leaves
\* the map empty and the store closed.
C26_CloseCancelsAll ==
    [][last'.op = "close" =>
         /\ \A id \in DOMAIN active_downloads :
               /\ workers'[active_downloads[id]].is_cancelled
               /\ id \in DOMAIN store' /\ store'[id].status = "cancelled"
         /\ active_downloads' = <<>>
         /\ db' = "closed"]_vars

C26_Witness ==
    /\ last.op = "close" /\ last.had_worker
    /\ \E w \in 1..Len(workers) : workers[w].is_cancelled
    /\ \E id \in DOMAIN store : store[id].status = "cancelled"
\* the queued record with the id
QueuedItem(q, h, id) == h[q[FirstIndex(q, h, id)]]

\* C27: a handler that runs while the store refuses writes completes with the
\* in-memory effect of a successful run: the record, the queue and the
\* active-worker map get their new values, and the rows stay as they were.
C27_WriteFailureTolerated ==
    [][(db = "failing" /\ db' = "failing") =>
        LET id == last'.id
            queued == id \in QueueIds(download_queue, heap)
            queued_after == id \in QueueIds(download_queue', heap')
        IN
        /\ store' = store
        /\ last'.op = "add" =>
              /\ heap' = Append(heap, NewItem(id, clock'))
              /\ download_queue' = Append(download_queue, Len(heap) + 1)
        /\ last'.op = "tick" =>
              /\ Cardinality(last'.started)
                    = Max(0, Min(last'.p, max_concurrent - last'.a))
              /\ \A x \in last'.started :
                    /\ x \in DOMAIN active_downloads'
                    /\ QueuedItem(download_queue', heap', x).status = "downloading"
        /\ (last'.op = "pause" /\ last'.had_worker) =>
              /\ workers'[active_downloads[id]].is_paused
              /\ queued => QueuedItem(download_queue', heap', id).status = "paused"
        /\ (last'.op = "resume" /\ last'.had_worker) =>
              /\ ~workers'[active_downloads[id]].is_paused
              /\ queued => QueuedItem(download_queue', heap', id).status = "downloading"
        /\ last'.op = "cancel_wait" =>
              /\ workers'[active_downloads[id]].is_cancelled
              /\ queued => QueuedItem(download_queue', heap', id).status = "cancelled"
        /\ last'.op = "cancel" =>
              /\ id \notin DOMAIN active_downloads'
              /\ ~queued_after
              /\ queued => heap'[download_queue[FirstIndex(download_queue, heap, id)]].status
                             = "cancelled"
        /\ (last'.op = "retry" /\ last'.pre = "failed") =>
              /\ queued_after
              /\ heap'[download_queue'[Len(download_queue')]].id = id
              /\ heap'[download_queue'[Len(download_queue')]].status = "pending"
              /\ heap'[download_queue'[Len(download_queue')]].retry_count = 0
        /\ (last'.op = "on_completed" /\ last'.pre # "") =>
              /\ id \notin DOMAIN active_downloads'
              /\ ~queued_after
              /\ queued =>
                   LET o == download_queue[FirstIndex(download_queue, heap, id)] IN
                   heap'[o].status = "completed" /\ heap'[o].progress = 100
        /\ (last'.op = "on_error" /\ last'.pre # "") =>
              /\ id \notin DOMAIN active_downloads'
              /\ queued => QueuedItem(download_queue', heap', id).status = "failed"
        /\ (last'.op \in {"on_status", "on_progress"} /\ queued /\ last'.events # <<>>) =>
              LET it == QueuedItem(download_queue', heap', id) IN
              /\ it.status = last'.events[1].status
              /\ last'.op = "on_progress" => it.progress = Head(sigq).n]_vars

C27_Witness ==
    /\ db = "failing"
    /\ last.op = "on_completed"
    /\ \E o \in 1..Len(heap) :
          /\ heap[o].id = last.id /\ heap[o].status = "completed"
          /\ store[last.id].status # "completed"
    /\ last.id \notin DOMAIN active_downloads
\* C28: when the store refuses writes only for a while, the row of every record
\* eventually has, and keeps, the record's status in memory.
C28_Converges ==
    <>[](db = "ok") =>
        <>[](\A o \in 1..Len(heap) :
                /\ heap[o].id \in DOMAIN store
                /\ store[heap[o].id].status = heap[o].status)
\* C29: every change of a record's status is a step of the state machine pending
\* -> preparing -> downloading <-> paused, any non-terminal status -> completed,
\* failed or cancelled, and failed -> pending.
C29_StateMachine ==
    [][\A o \in 1..Len(heap) :
          heap'[o].status # heap[o].status =>
              \/ <<heap[o].status, heap'[o].status>> \in
                    {<<"pending", "preparing">>, <<"preparing", "downloading">>,
                     <<"downloading", "paused">>, <<"paused", "downloading">>,
                     <<"failed", "pending">>}
              \/ /\ heap[o].status \notin Terminal
                 /\ heap'[o].status \in Terminal]_vars

\* C30: resume_download on a paused record leaves the record in another status
\* than paused, with or without a worker for it.
C30_ResumeLeavesPaused ==
    (last.op = "resume" /\ last.pre = "paused") => StatusOf(last.id) # "paused"
\* C31: cleanup_old_downloads deletes exactly the rows with a terminal status and
\* a created_at before the cutoff, leaves every other row as it is, and changes
\* neither the queue nor the active-worker map.
C31_CleanupExact ==
    [][last'.op = "cleanup" =>
         /\ DOMAIN store' =
               {id \in DOMAIN store :
                   ~(store[id].status \in Terminal /\ store[id].created_at < last'.a)}
         /\ \A id \in DOMAIN store' : store'[id] = store[id]
         /\ UNCHANGED <<heap, download_queue, active_downloads>>]_vars

C31_Witness ==
    /\ last.op = "cleanup"
    /\ \E o \in 1..Len(heap) : heap[o].status \in Terminal /\ heap[o].id \notin DOMAIN store
    /\ \E id \in DOMAIN store : store[id].created_at < last.a
\* C32: the status events of a record reach the manager in the order of the
\* transitions: while the pause flag of a record's worker is set, the record's
\* status is not downloading.
C32_PausedAgrees ==
    \A id \in DOMAIN active_downloads :
        LET w == active_downloads[id] IN
        (Idle /\ workers[w].is_paused) => heap[workers[w].obj].status # "downloading"
\* C33: pause and resume of a running download keep its worker: the map and the
\* set of workers are unchanged by both, retry_count is unchanged, the record of a
\* resumed paused download is downloading, and a tick starts no worker for an id
\* of the map and counts the paused workers against max_concurrent.
C33_ResumeKeepsWorker ==
    [][/\ (last'.op \in {"pause", "resume"} /\ last'.had_worker) =>
            /\ active_downloads' = active_downloads
            /\ workers'[active_downloads[last'.id]].pc = workers[active_downloads[last'.id]].pc
            /\ Len(workers') = Len(workers)
            /\ Len(heap') = Len(heap)
            /\ \A o \in 1..Len(heap) : heap'[o].retry_count = heap[o].retry_count
            /\ (last'.op = "resume" /\ last'.pre = "paused"
                  /\ last'.id \in QueueIds(download_queue, heap)) =>
                  QueuedItem(download_queue', heap', last'.id).status = "downloading"
       /\ last'.op = "tick" =>
            /\ last'.started \cap DOMAIN active_downloads = {}
            /\ \A id \in DOMAIN active_downloads :
                  active_downloads'[id] = active_downloads[id]
            /\ Len(workers') - Len(workers)
                  <= Max(0, max_concurrent - Cardinality(DOMAIN active_downloads))]_vars

C33_Witness ==
    /\ last.op = "resume" /\ last.had_worker /\ last.pre = "paused"
    /\ StatusOf(last.id) = "downloading"
    /\ Len(workers) = 1
    /\ max_concurrent = 1
    /\ Len(PendingDownloads(download_queue, heap)) = 1
\* C34: a start that fails inside start_download is contained: the record is
\* failed with the error message, a failed event is emitted, and the id is not in
\* the active-worker map afterwards.
C34_StartFailureContained ==
    [][(last'.op = "tick" /\ last'.events # <<>>) =>
         /\ QueuedItem(download_queue', heap', last'.id).status = "failed"
         /\ QueuedItem(download_queue', heap', last'.id).error_message # ""
         /\ last'.events[1].ev = "failed"
         /\ last'.id \notin DOMAIN active_downloads']_vars
\* C35: the error message of a record, in memory and in the store, is no longer
\* than a fixed maximum, whatever the length of the engine's error text.
C35_MessageBounded ==
    /\ \A o \in 1..Len(heap) : Len(heap[o].error_message) <= MaxMessageLen
    /\ \A id \in DOMAIN store : Len(store[id].error_message) <= MaxMessageLen
\* C36: download_queue holds at most one entry for an id.
C36_QueueIdsUnique ==
    \A j, k \in 1..Len(download_queue) :
        heap[download_queue[j]].id = heap[download_queue[k]].id => j = k
\* C37: when no worker is held by a pause for ever, every record that is pending
\* in the queue is started at some later time.
C37_PendingAdmitted ==
    <>[](\A w \in 1..Len(workers) : ~workers[w].is_paused) =>
        \A o \in 1..AdmitBudget.objs :
            [](  (/\ o \in {download_queue[k] : k \in 1..Len(download_queue)}
                  /\ o <= Len(heap) /\ heap[o].status = "pending")
              => <>(/\ o <= Len(heap) /\ heap[o].status # "pending"
                    /\ \E w \in 1..Len(workers) : workers[w].obj = o))
\* C38: once close() has returned, no step starts a worker.
C38_NoStartAfterClose ==
    [][db = "closed" => (Len(workers') = Len(workers) /\ active_downloads' = <<>>)]_vars
\* C39: the 'finished' callback of a transfer is processed whether or not the
\* worker was paused: the completed signal carries the file path and a completed
\* record has its filename.
C39_FinishedNotLost ==
    /\ \A k \in 1..Len(sigq) : sigq[k].sig = "completed" => sigq[k].st # ""
    /\ \A o \in 1..Len(heap) : heap[o].status = "completed" => heap[o].filename # ""
\* C40: importing an exported history into an empty store returns True and gives
\* a store whose rows are the exported terminal records, field by field.
C40_ExportImportRoundTrip ==
    [][last'.op = "import_file" =>
         /\ last'.pre = "True"
         /\ \A id \in DOMAIN store :
               store[id].status \in Terminal =>
                   /\ id \in DOMAIN store'
                   /\ RowToItem(store'[id]) = RowToItem(store[id])]_vars
====
